---- MODULE Spec2Model ----
(***************************************************************************)
(* TableData (mock-table-data): an in-memory table with a condition-tree   *)
(* evaluator, sorting, offset/limit pagination and insert/update/delete.   *)
(* The model follows the lodash/fp version of the class with ConditionNode *)
(* trees (validateConditionItem, evaluateCondition, getRows, ...).         *)
(***************************************************************************)
EXTENDS Integers, Sequences, FiniteSets

VARIABLES dataSource, primaryKey, dataProcessing, pre, op, args, ret

vars == <<dataSource, primaryKey, dataProcessing, pre, op, args, ret>>

(***************************************************************************)
(* Bounds of the model.                                                    *)
(***************************************************************************)
MaxRows == 2
MaxDepth == 2
MaxLimit == 3

(***************************************************************************)
(* JavaScript values.  Every value is a record of one shape:               *)
(*   t   the kind: "undefined", "null", "number", "nan", "boolean",        *)
(*       "string" or "array";                                              *)
(*   n   the number (or 1/0 for true/false);                               *)
(*   s   the characters of a string, or the (one-character) elements of an *)
(*       array, the model's nested structure;                              *)
(*   ref the identity of an array object (0 for primitives).               *)
(* Strings are sequences of one-character strings.                         *)
(***************************************************************************)
Undefined == [t |-> "undefined", n |-> 0, s |-> <<>>, ref |-> 0]
Null == [t |-> "null", n |-> 0, s |-> <<>>, ref |-> 0]
NaN == [t |-> "nan", n |-> 0, s |-> <<>>, ref |-> 0]
Num(k) == [t |-> "number", n |-> k, s |-> <<>>, ref |-> 0]
Bool(b) == [t |-> "boolean", n |-> IF b THEN 1 ELSE 0, s |-> <<>>, ref |-> 0]
Str(cs) == [t |-> "string", n |-> 0, s |-> cs, ref |-> 0]
Arr(r, cs) == [t |-> "array", n |-> 0, s |-> cs, ref |-> r]

\* typeof v
TypeOf(v) ==
  CASE v.t = "undefined" -> "undefined"
    [] v.t = "null" -> "object"
    [] v.t = "array" -> "object"
    [] v.t = "nan" -> "number"
    [] OTHER -> v.t

\* !!v
Truthy(v) ==
  CASE v.t = "undefined" -> FALSE
    [] v.t = "null" -> FALSE
    [] v.t = "nan" -> FALSE
    [] v.t = "number" -> v.n # 0
    [] v.t = "boolean" -> v.n = 1
    [] v.t = "string" -> v.s # <<>>
    [] OTHER -> TRUE

(***************************************************************************)
(* Characters: case mapping and UTF-16 order of the characters in use.     *)
(***************************************************************************)
LowerChars == <<"a", "b", "e", "f", "l", "r", "s", "t", "u", "x">>
UpperChars == <<"A", "B", "E", "F", "L", "R", "S", "T", "U", "X">>
Digits == <<"0", "1", "2", "3", "4", "5", "6", "7", "8", "9">>
CodeOrder == <<" ", "+", ",", "-", ".">> \o Digits \o UpperChars \o LowerChars

IndexOf(seq, c) == IF \E i \in DOMAIN seq : seq[i] = c
                   THEN CHOOSE i \in DOMAIN seq : seq[i] = c
                   ELSE 0

IsDigit(c) == IndexOf(Digits, c) # 0
DigitVal(c) == IndexOf(Digits, c) - 1
CharCode(c) == IndexOf(CodeOrder, c)

\* String.prototype.toUpperCase, one character
UpperChar(c) == IF IndexOf(LowerChars, c) # 0 THEN UpperChars[IndexOf(LowerChars, c)] ELSE c

\* String.prototype.toUpperCase
ToUpperCase(cs) == [i \in DOMAIN cs |-> UpperChar(cs[i])]

\* the substring test of String.prototype.indexOf(target) > -1
IsSubstring(target, cs) ==
  \E i \in 0..(Len(cs) - Len(target)) :
    \A j \in 1..Len(target) : cs[i + j] = target[j]

\* lodash/fp includes(value, collection) on a string collection
includes(target, cs) == IsSubstring(target, cs)

RECURSIVE NatToString(_)
NatToString(k) == IF k < 10 THEN <<Digits[k + 1]>>
                  ELSE NatToString(k \div 10) \o <<Digits[(k % 10) + 1]>>

\* Number.prototype.toString for the integers of the model
IntToString(k) == IF k < 0 THEN <<"-">> \o NatToString(-k) ELSE NatToString(k)

RECURSIVE Join(_)
\* Array.prototype.join(",")
Join(cs) == IF cs = <<>> THEN <<>>
            ELSE IF Len(cs) = 1 THEN cs
            ELSE <<Head(cs), ",">> \o Join(Tail(cs))

\* String(v) / v.toString() of a value
toString(v) ==
  CASE v.t = "undefined" -> <<"u", "n", "d", "e", "f", "i", "n", "e", "d">>
    [] v.t = "null" -> <<"n", "u", "l", "l">>
    [] v.t = "nan" -> <<"N", "a", "N">>
    [] v.t = "number" -> IntToString(v.n)
    [] v.t = "boolean" -> IF v.n = 1 THEN <<"t", "r", "u", "e">> ELSE <<"f", "a", "l", "s", "e">>
    [] v.t = "string" -> v.s
    [] OTHER -> Join(v.s)

RECURSIVE TrimStart(_)
TrimStart(cs) == IF cs # <<>> /\ Head(cs) = " " THEN TrimStart(Tail(cs)) ELSE cs

RECURSIVE DigitPrefix(_)
\* the longest prefix of decimal digits
DigitPrefix(cs) == IF cs # <<>> /\ IsDigit(Head(cs)) THEN <<Head(cs)>> \o DigitPrefix(Tail(cs)) ELSE <<>>

RECURSIVE DigitsValue(_)
DigitsValue(ds) == IF ds = <<>> THEN 0
                   ELSE DigitsValue(SubSeq(ds, 1, Len(ds) - 1)) * 10 + DigitVal(ds[Len(ds)])

HasSign(cs) == cs # <<>> /\ Head(cs) \in {"-", "+"}
Unsigned(cs) == IF HasSign(cs) THEN Tail(cs) ELSE cs

\* the number of a sign and a run of digits; NaN when there is no digit
signedValue(negative, ds) ==
  IF ds = <<>> THEN NaN ELSE Num(IF negative THEN -DigitsValue(ds) ELSE DigitsValue(ds))

\* parseInt on a string with no leading white space
parseIntOf(body) ==
  signedValue(HasSign(body) /\ Head(body) = "-", DigitPrefix(Unsigned(body)))

\* parseInt(v, 10): String(v), leading white space skipped, an optional sign, then
\* the longest run of digits; NaN when there is none
parseInt(v) == parseIntOf(TrimStart(toString(v)))

\* a digit, or a "." followed by a digit, starts a number for parseFloat
startsNumber(body) ==
  \/ (body # <<>> /\ IsDigit(Head(body)))
  \/ (Len(body) >= 2 /\ Head(body) = "." /\ IsDigit(body[2]))

\* isNaN(parseFloat(v)): parseFloat reads String(v), skips leading white space and
\* an optional sign, and needs the start of a number (the strings of the model
\* hold no "Infinity")
parseFloatIsNaN(v) == ~startsNumber(Unsigned(TrimStart(toString(v))))

(***************************************************************************)
(* Rows.  A row is a record of the fields id, name and tags; a field the   *)
(* row does not carry holds Undefined.  The key "tags.0" is a dotted path  *)
(* into the nested structure.                                              *)
(***************************************************************************)
Row(i, nm, tg) == [id |-> i, name |-> nm, tags |-> tg]

\* lodash/fp get(key, row): the value at the path, undefined when the path is missing
get(key, row) ==
  CASE key \in DOMAIN row -> row[key]
    [] key = "tags.0" -> IF row.tags.t = "array" /\ row.tags.s # <<>>
                         THEN Str(<<row.tags.s[1]>>) ELSE Undefined
    [] OTHER -> Undefined

(***************************************************************************)
(* Condition trees.  Every node is a record of one shape.                  *)
(*   kind = "leaf": a ConditionItem {[key]: value, type?, required?, like?} *)
(*     key "" stands for an item with no key but the modifiers;            *)
(*     type "none" for no declared type.                                   *)
(*   kind = "branch": {logic?, conditions}; logic "none" for no logic.     *)
(*   kind = "list": a plain array of nodes (conditions given as a list).   *)
(*   kind = "absent": no conditions argument (undefined).                  *)
(***************************************************************************)
Leaf(k, v, ty, req, lk) ==
  [kind |-> "leaf", logic |-> "none", conditions |-> <<>>,
   key |-> k, value |-> v, type |-> ty, required |-> req, like |-> lk]
Branch(lg, cs) ==
  [kind |-> "branch", logic |-> lg, conditions |-> cs,
   key |-> "", value |-> Undefined, type |-> "none", required |-> FALSE, like |-> FALSE]
List(cs) ==
  [kind |-> "list", logic |-> "none", conditions |-> cs,
   key |-> "", value |-> Undefined, type |-> "none", required |-> FALSE, like |-> FALSE]
Absent ==
  [kind |-> "absent", logic |-> "none", conditions |-> <<>>,
   key |-> "", value |-> Undefined, type |-> "none", required |-> FALSE, like |-> FALSE]

(***************************************************************************)
(* Errors.  kind is "none" (no error), "InvalidConditionShape",            *)
(* "MissingRequiredField", "TypeMismatch", "DuplicateKey" or               *)
(* "ConditionNotFound".                                                    *)
(***************************************************************************)
Err(k, ky, ty, act) == [kind |-> k, key |-> ky, type |-> ty, actual |-> act]
NoErr == Err("none", "", "", "")

\* the typeCheck table of validateConditionItem
typeCheck(type, v) ==
  CASE type = "string" -> TypeOf(v) = "string"
    [] type = "number" -> TypeOf(v) = "number" \/ ~parseFloatIsNaN(v)
    [] type = "boolean" -> \/ TypeOf(v) = "boolean"
                           \/ v = Str(<<"t", "r", "u", "e">>)
                           \/ v = Str(<<"f", "a", "l", "s", "e">>)
    [] OTHER -> TRUE

\* validateConditionItem(item): the error it throws, NoErr when it returns
validateConditionItem(item) ==
  LET key == item.key
      value == item.value
  IN IF key = "" THEN Err("InvalidConditionShape", "", "", "")
     ELSE IF item.required /\ (value = Undefined \/ value = Null \/ value = Str(<<>>))
     THEN Err("MissingRequiredField", key, "", "")
     ELSE IF value # Undefined /\ value # Null /\ item.type # "none"
             /\ ~typeCheck(item.type, value)
     THEN Err("TypeMismatch", key, item.type, TypeOf(value))
     ELSE NoErr

\* lodash/fp eq(value, other): SameValueZero; two arrays are the same value only
\* when they are the same object
eq(value, other) ==
  IF value.t = "array" /\ other.t = "array" THEN value.ref = other.ref
  ELSE value = other

\* the outcome of an evaluation: a boolean, or an error thrown
Returned(b) == [thrown |-> FALSE, val |-> b, err |-> NoErr]
Thrown(e) == [thrown |-> TRUE, val |-> FALSE, err |-> e]

\* the first element of a sequence of outcomes that is a throw
FirstThrown(results) ==
  results[CHOOSE i \in DOMAIN results :
            results[i].thrown /\ \A j \in 1..(i - 1) : ~results[j].thrown]

\* mutant: the strings compared as they are, not upper-cased
evaluateLeafCaseSensitive(row, node) ==
  LET value == node.value
      rowValue == get(node.key, row)
      cmp == toString(IF rowValue = Undefined \/ rowValue = Null THEN Str(<<>>) ELSE rowValue)
  IN IF node.key = "" THEN FALSE
     ELSE IF value = Undefined \/ value = Str(<<>>) THEN TRUE
     ELSE IF TypeOf(value) = "string"
     THEN (IF node.like THEN includes(value.s, cmp) ELSE cmp = value.s)
     ELSE eq(value, rowValue)

\* the leaf part of evaluateCondition, after validation
evaluateLeaf(row, node) ==
  LET value == node.value
      rowValue == get(node.key, row)
      like == node.like
      cmp == ToUpperCase(toString(IF rowValue = Undefined \/ rowValue = Null
                                  THEN Str(<<>>) ELSE rowValue))
      target == ToUpperCase(value.s)
  IN IF node.key = "" THEN FALSE
     ELSE IF value = Undefined \/ value = Str(<<>>) THEN TRUE
     ELSE IF TypeOf(value) = "string"
     THEN (IF like THEN includes(target, cmp) ELSE cmp = target)
     ELSE eq(value, rowValue)

\* mutant: some() for both logics
combineSome(logic, results) == \E i \in DOMAIN results : results[i].val

\* results.every(Boolean) / results.some(Boolean)
combine(logic, results) ==
  IF logic = "AND" THEN \A i \in DOMAIN results : results[i].val
  ELSE \E i \in DOMAIN results : results[i].val

\* mutant: a missing logic read as OR
logicOfDefaultOr(node) == IF node.logic = "none" THEN "OR" ELSE node.logic

\* node.logic ?? 'AND'
logicOf(node) == IF node.logic = "none" THEN "AND" ELSE node.logic

\* the outcome of a branch: the first throw of its children, else their results
\* combined
branchOutcome(logic, results) ==
  IF \E i \in DOMAIN results : results[i].thrown
  THEN FirstThrown(results)
  ELSE Returned(combine(logic, results))

RECURSIVE evaluateCondition(_, _)
\* evaluateCondition(row, node): every child is evaluated, in order (map), before
\* the results are combined; a leaf is validated first
evaluateCondition(row, node) ==
  IF node.kind = "branch"
  THEN branchOutcome(logicOf(node),
                     [i \in DOMAIN node.conditions |->
                        evaluateCondition(row, node.conditions[i])])
  ELSE LET e == validateConditionItem(node)
       IN IF e # NoErr THEN Thrown(e) ELSE Returned(evaluateLeaf(row, node))

\* Array.isArray(conditions) ? { logic: 'AND', conditions } : conditions
treeOf(conditions) ==
  IF conditions.kind = "list" THEN Branch("AND", conditions.conditions) ELSE conditions

(***************************************************************************)
(* Sorting: lodash orderBy(sortKeys, sortOrders, rows).                    *)
(***************************************************************************)
RECURSIVE TrimEnd(_)
TrimEnd(cs) == IF cs # <<>> /\ cs[Len(cs)] = " " THEN TrimEnd(SubSeq(cs, 1, Len(cs) - 1)) ELSE cs

\* ToNumber of a trimmed string: 0 for the empty string, the integer it spells,
\* NaN for anything else
stringToNumber(body) ==
  IF body = <<>> THEN Num(0)
  ELSE IF Unsigned(body) # <<>> /\ DigitPrefix(Unsigned(body)) = Unsigned(body)
  THEN signedValue(Head(body) = "-", Unsigned(body))
  ELSE NaN

\* ToNumber(v) for the relational operators; the strings of the model hold no
\* fraction and no exponent
ToNumber(v) ==
  CASE v.t = "undefined" -> NaN
    [] v.t = "nan" -> NaN
    [] v.t = "null" -> Num(0)
    [] v.t = "number" -> v
    [] v.t = "boolean" -> Num(v.n)
    [] OTHER -> stringToNumber(TrimEnd(TrimStart(toString(v))))

RECURSIVE StringLess(_, _)
\* a < b on two strings: by UTF-16 code units
StringLess(a, b) ==
  IF b = <<>> THEN FALSE
  ELSE IF a = <<>> THEN TRUE
  ELSE IF Head(a) # Head(b) THEN CharCode(Head(a)) < CharCode(Head(b))
  ELSE StringLess(Tail(a), Tail(b))

\* x < y on two numbers: false when either is NaN
numberLess(x, y) == x # NaN /\ y # NaN /\ x.n < y.n

\* a < b of JavaScript: two strings (an array is its string form) by code units,
\* anything else as numbers
JsLess(a, b) ==
  IF a.t \in {"string", "array"} /\ b.t \in {"string", "array"}
  THEN StringLess(toString(a), toString(b))
  ELSE numberLess(ToNumber(a), ToNumber(b))

\* value === other
StrictEq(value, other) == value.t # "nan" /\ eq(value, other)

\* lodash compareAscending(value, other)
compareAscending(value, other) ==
  LET valIsDefined == value # Undefined
      valIsNull == value = Null
      valIsReflexive == value # NaN
      othIsDefined == other # Undefined
      othIsNull == other = Null
      othIsReflexive == other # NaN
  IN IF StrictEq(value, other) THEN 0
     ELSE IF \/ (~othIsNull /\ JsLess(other, value))
             \/ (valIsNull /\ othIsDefined /\ othIsReflexive)
             \/ (~valIsDefined /\ othIsReflexive)
             \/ ~valIsReflexive
     THEN 1
     ELSE IF \/ (~valIsNull /\ JsLess(value, other))
             \/ (othIsNull /\ valIsDefined /\ valIsReflexive)
             \/ (~othIsDefined /\ valIsReflexive)
             \/ ~othIsReflexive
     THEN -1
     ELSE 0

\* result * (order == 'desc' ? -1 : 1), the result as it is beyond the orders
inOrder(result, orders, i) ==
  IF i > Len(orders) THEN result
  ELSE IF orders[i] = "desc" THEN -result ELSE result

\* the criteria compared, one per sort key
compared(object, other) ==
  [i \in DOMAIN object.criteria |-> compareAscending(object.criteria[i], other.criteria[i])]

RECURSIVE compareFrom(_, _, _, _)
compareFrom(results, indexes, orders, i) ==
  IF i > Len(results) THEN indexes
  ELSE IF results[i] # 0 THEN inOrder(results[i], orders, i)
  ELSE compareFrom(results, indexes, orders, i + 1)

\* mutant: entries that tie on every criterion come out in reverse input order
compareMultipleTiesReversed(object, other, orders) ==
  compareFrom(compared(object, other), other.index - object.index, orders, 1)

\* lodash compareMultiple(object, other, orders): the first criterion that differs
\* decides, in its order; the input index breaks the remaining ties
compareMultiple(object, other, orders) ==
  compareFrom(compared(object, other), object.index - other.index, orders, 1)

RECURSIVE insertSorted(_, _, _)
\* x put into the sorted sequence, behind the elements that do not come after it
insertSorted(x, sorted, orders) ==
  IF sorted = <<>> THEN <<x>>
  ELSE IF compareMultiple(x, Head(sorted), orders) < 0 THEN <<x>> \o sorted
  ELSE <<Head(sorted)>> \o insertSorted(x, Tail(sorted), orders)

RECURSIVE baseSortBy(_, _)
\* array.sort(comparer) on the entries {criteria, index, value}
baseSortBy(entries, orders) ==
  IF entries = <<>> THEN <<>>
  ELSE insertSorted(entries[Len(entries)],
                    baseSortBy(SubSeq(entries, 1, Len(entries) - 1), orders), orders)

\* a sort token "key:order" is the sequence of its parts between the colons;
\* const [key, order] = s.split(':')
tokenKey(s) == IF Len(s) >= 1 THEN s[1] ELSE ""
tokenOrder(s) == IF Len(s) >= 2 /\ s[2] = "desc" THEN "desc" ELSE "asc"

\* the rows of the sorted entries
values(sorted) == [i \in DOMAIN sorted |-> sorted[i].value]

\* sortedList(rows, sorts)
sortedList(rows, sorts) ==
  LET sortKeys == [i \in DOMAIN sorts |-> tokenKey(sorts[i])]
      sortOrders == [i \in DOMAIN sorts |-> tokenOrder(sorts[i])]
      entries == [i \in DOMAIN rows |->
                    [criteria |-> [k \in DOMAIN sortKeys |-> get(sortKeys[k], rows[i])],
                     index |-> i, value |-> rows[i]]]
  IN values(baseSortBy(entries, sortOrders))

\* the sort argument of selectRows: one token (kind "string"), a list of tokens
\* (kind "array") or anything else (kind "absent")
SortArg(k, ts) == [kind |-> k, tokens |-> ts]
NoSort == SortArg("absent", <<>>)

\* getSortOption(sort)
getSortOption(sort) ==
  CASE sort.kind = "string" -> SortArg("array", sort.tokens)
    [] sort.kind = "array" -> sort
    [] OTHER -> NoSort

(***************************************************************************)
(* The outcome of a call: status "ok" or "throw" with the error, the rows  *)
(* returned (a list result), the row returned (found: one row, or none for *)
(* undefined) and the meta envelope.                                       *)
(***************************************************************************)
Meta(tc, cc, lim, off) ==
  [present |-> TRUE, totalCount |-> tc, currentCount |-> cc, limit |-> lim, offset |-> off]
NoMeta ==
  [present |-> FALSE, totalCount |-> 0, currentCount |-> 0, limit |-> Undefined, offset |-> Undefined]

Ok(rs, fd, m) == [status |-> "ok", err |-> NoErr, rows |-> rs, found |-> fd, meta |-> m]
Throw(e) == [status |-> "throw", err |-> e, rows |-> <<>>, found |-> <<>>, meta |-> NoMeta]
NoCall == Ok(<<>>, <<>>, NoMeta)

RECURSIVE keep(_, _)
\* the rows whose evaluation returned true, in table order
keep(rows, results) ==
  IF rows = <<>> THEN <<>>
  ELSE (IF results[1].val THEN <<rows[1]>> ELSE <<>>) \o keep(Tail(rows), Tail(results))

\* the outcome of filter: the first throw ends the call, else the rows kept
filterOutcome(ds, results) ==
  IF \E i \in DOMAIN results : results[i].thrown
  THEN Throw(FirstThrown(results).err)
  ELSE Ok(keep(ds, results), <<>>, NoMeta)

\* filteredList(conditions) on the table ds: filter evaluates the tree on every
\* row in table order
filteredList(ds, conditions) ==
  filterOutcome(ds, [i \in DOMAIN ds |-> evaluateCondition(ds[i], treeOf(conditions))])

RECURSIVE findIndexFrom(_, _)
\* findIndex / find with evaluateCondition as predicate: the outcomes of the rows
\* are looked at in table order up to the first that throws or passes;
\* [thrown, err, index], index 0 for not found
findIndexFrom(results, i) ==
  IF i > Len(results) THEN [thrown |-> FALSE, err |-> NoErr, index |-> 0]
  ELSE IF results[i].thrown THEN [thrown |-> TRUE, err |-> results[i].err, index |-> 0]
  ELSE IF results[i].val THEN [thrown |-> FALSE, err |-> NoErr, index |-> i]
  ELSE findIndexFrom(results, i + 1)

\* mutant: the last row counts as found when no row passes
findIndexOrLast(ds, conditions) ==
  LET f == findIndexFrom([i \in DOMAIN ds |-> evaluateCondition(ds[i], treeOf(conditions))], 1)
  IN IF ~f.thrown /\ f.index = 0 THEN [f EXCEPT !.index = Len(ds)] ELSE f

findIndex(ds, conditions) ==
  findIndexFrom([i \in DOMAIN ds |-> evaluateCondition(ds[i], treeOf(conditions))], 1)

\* relative index of Array.prototype.slice: NaN counts as 0, a negative index
\* counts from the end
relativeIndex(v, len) ==
  LET k == IF v.t = "number" THEN v.n ELSE 0
  IN IF k < 0 THEN (IF len + k < 0 THEN 0 ELSE len + k)
     ELSE (IF k > len THEN len ELSE k)

\* mutant: the end index taken as the last position of the page
sliceInclusive(rows, start, end) ==
  LET len == Len(rows)
      from == relativeIndex(start, len)
      to == IF end = Undefined THEN len ELSE relativeIndex(end, len)
  IN SubSeq(rows, from + 1, IF to + 1 > len THEN len ELSE to + 1)

\* Array.prototype.slice(start, end); end undefined means the length
slice(rows, start, end) ==
  LET len == Len(rows)
      from == relativeIndex(start, len)
      to == IF end = Undefined THEN len ELSE relativeIndex(end, len)
  IN SubSeq(rows, from + 1, to)

\* a + b on the results of parseInt
plus(a, b) == IF a = NaN \/ b = NaN THEN NaN ELSE Num(a.n + b.n)

\* the caller's dataProcessing function (opaque): none configured, or one of a
\* few transforms of the page
applyProcessing(dp, rows) ==
  CASE dp = "dropFirst" -> IF rows = <<>> THEN <<>> ELSE Tail(rows)
    [] dp = "double" -> rows \o rows
    [] dp = "reverse" -> [i \in DOMAIN rows |-> rows[Len(rows) + 1 - i]]
    [] dp = "append" -> Append(rows, Row(Num(0), Str(<<>>), Undefined))
    [] OTHER -> rows

\* mutant: no short cut for a limit of 0
shortCircuitEmptyOnly(ds, nLimit) == ds = <<>>

\* !this._dataSource.length || nLimit === 0
shortCircuit(ds, nLimit) == ds = <<>> \/ nLimit = Num(0)

\* the result of the short cut: an empty page, with meta the counts 0
emptyResult(nLimit, nOffset, meta) ==
  IF ~meta THEN Ok(<<>>, <<>>, NoMeta)
  ELSE Ok(<<>>, <<>>, Meta(0, 0, nLimit, nOffset))

\* mutant: totalCount taken from the page, after pagination
totalCountOfPage(filtered, page) == Len(page)

\* const totalCount = result.length, on the filtered rows
totalCount(filtered, page) == Len(filtered)

\* the envelope: the processed rows with the counts
withMeta(processed, total, nLimit, nOffset) ==
  Ok(processed, <<>>, Meta(total, Len(processed), nLimit, nOffset))

\* mutant: dataProcessing applied to the page without meta too
pageResultProcessed(dp, filtered, page, nLimit, nOffset, meta) ==
  IF ~meta THEN Ok(IF dp # "none" THEN applyProcessing(dp, page) ELSE page, <<>>, NoMeta)
  ELSE withMeta(IF dp # "none" THEN applyProcessing(dp, page) ELSE page,
                totalCount(filtered, page), nLimit, nOffset)

\* the return of getRows: the page, or with meta the page after dataProcessing
\* in the envelope
pageResult(dp, filtered, page, nLimit, nOffset, meta) ==
  IF ~meta THEN Ok(page, <<>>, NoMeta)
  ELSE withMeta(IF dp # "none" THEN applyProcessing(dp, page) ELSE page,
                totalCount(filtered, page), nLimit, nOffset)

\* the filtered rows sorted (when sorts are given) and cut to the page
sortAndSlice(dp, filtered, limit, nLimit, nOffset, sorts, meta) ==
  pageResult(dp, filtered,
             slice(IF sorts.kind # "absent" THEN sortedList(filtered, sorts.tokens)
                   ELSE filtered,
                   nOffset, IF Truthy(limit) THEN plus(nOffset, nLimit) ELSE Undefined),
             nLimit, nOffset, meta)

\* getRows behind the filter: a throw of the filter ends the call
afterFilter(dp, filtered, limit, nLimit, nOffset, sorts, meta) ==
  IF filtered.status = "throw" THEN filtered
  ELSE sortAndSlice(dp, filtered.rows, limit, nLimit, nOffset, sorts, meta)

\* getRows behind the parsing of limit and offset
getRowsParsed(ds, dp, limit, nLimit, nOffset, conditions, sorts, meta) ==
  IF shortCircuit(ds, nLimit) THEN emptyResult(nLimit, nOffset, meta)
  ELSE afterFilter(dp,
                   IF conditions.kind # "absent" THEN filteredList(ds, conditions)
                   ELSE Ok(ds, <<>>, NoMeta),
                   limit, nLimit, nOffset, sorts, meta)

\* getRows(limit, offset, conditions, sorts, meta) on the table ds
getRows(ds, dp, limit, offset, conditions, sorts, meta) ==
  getRowsParsed(ds, dp, limit, parseInt(limit),
                IF Truthy(offset) THEN parseInt(offset) ELSE Num(0),
                conditions, sorts, meta)

\* selectRows(limit, offset, conditions = [], sort, meta)
selectRows(ds, dp, limit, offset, conditions, sort, meta) ==
  getRows(ds, dp, limit, offset,
          IF conditions.kind = "absent" THEN List(<<>>) ELSE conditions,
          getSortOption(sort), meta)

\* mutant: the last row of the table returned for the row found
rowAtLast(ds, f) ==
  IF f.thrown THEN Throw(f.err)
  ELSE IF f.index = 0 THEN Ok(<<>>, <<>>, NoMeta)
  ELSE Ok(<<>>, <<ds[Len(ds)]>>, NoMeta)

\* the row found, undefined (no row) when none passes
rowAt(ds, f) ==
  IF f.thrown THEN Throw(f.err)
  ELSE IF f.index = 0 THEN Ok(<<>>, <<>>, NoMeta)
  ELSE Ok(<<>>, <<ds[f.index]>>, NoMeta)

\* selectRow(conditions)
selectRow(ds, conditions) == rowAt(ds, findIndex(ds, conditions))

\* mutant: no duplicate test
isDuplicateNever(ds, pk, item) == FALSE

\* mutant: the key values compared by their string forms
isDuplicateLoose(ds, pk, item) ==
  pk # "" /\ \E i \in DOMAIN ds : toString(ds[i][pk]) = toString(item[pk])

\* the duplicate test of insertRow: some row carries the same value (===) at the
\* primary key
isDuplicate(ds, pk, item) ==
  pk # "" /\ \E i \in DOMAIN ds : StrictEq(ds[i][pk], item[pk])

\* mutant: the items put in behind the row at the index, which stays
spliceKeep(ds, index, items) ==
  SubSeq(ds, 1, index) \o items \o SubSeq(ds, index + 1, Len(ds))

\* splice(index, 1, newItem) / splice(index, 1)
splice(ds, index, items) ==
  SubSeq(ds, 1, index - 1) \o items \o SubSeq(ds, index + 1, Len(ds))

(***************************************************************************)
(* The operations of the class as actions.  pre is the table before the    *)
(* last call, op and args name the call, ret is its outcome.               *)
(***************************************************************************)
Args(lim, off, c, srt, m, its, rs) ==
  [limit |-> lim, offset |-> off, conditions |-> c, sort |-> srt, meta |-> m,
   item |-> its, rows |-> rs]
NoArgs == Args(Undefined, Undefined, Absent, NoSort, FALSE, <<>>, <<>>)

\* mutant: the rows of the result left in the table, as a sort in place would
ReadInPlace(name, a, r) ==
  /\ pre' = dataSource
  /\ op' = name
  /\ args' = a
  /\ ret' = r
  /\ dataSource' = IF r.status = "ok" /\ Len(r.rows) = Len(dataSource) THEN r.rows
                    ELSE dataSource
  /\ UNCHANGED <<primaryKey, dataProcessing>>

Read(name, a, r) ==
  /\ pre' = dataSource
  /\ op' = name
  /\ args' = a
  /\ ret' = r
  /\ UNCHANGED <<dataSource, primaryKey, dataProcessing>>

CallFilteredList(Conds) ==
  \E c \in Conds :
    Read("filteredList", Args(Undefined, Undefined, c, NoSort, FALSE, <<>>, <<>>),
         filteredList(dataSource, c))

CallSortedList(RowSeqs, Sorts) ==
  \E rs \in RowSeqs, s \in Sorts :
    Read("sortedList", Args(Undefined, Undefined, Absent, s, FALSE, <<>>, rs),
         Ok(sortedList(rs, s.tokens), <<>>, NoMeta))

CallGetRows(Limits, Offsets, Conds, Sorts, Metas) ==
  \E lim \in Limits, off \in Offsets, c \in Conds, s \in Sorts, m \in Metas :
    Read("getRows", Args(lim, off, c, s, m, <<>>, <<>>),
         getRows(dataSource, dataProcessing, lim, off, c, s, m))

CallSelectRows(Limits, Offsets, Conds, Sorts, Metas) ==
  \E lim \in Limits, off \in Offsets, c \in Conds, s \in Sorts, m \in Metas :
    Read("selectRows", Args(lim, off, c, s, m, <<>>, <<>>),
         selectRows(dataSource, dataProcessing, lim, off, c, s, m))

CallSelectRow(Conds) ==
  \E c \in Conds :
    Read("selectRow", Args(Undefined, Undefined, c, NoSort, FALSE, <<>>, <<>>),
         selectRow(dataSource, c))

\* insertRow(item); the table of the model holds at most MaxRows rows
CallInsertRow(Items) ==
  \E item \in Items :
    /\ Len(dataSource) < MaxRows
    /\ pre' = dataSource
    /\ op' = "insertRow"
    /\ args' = Args(Undefined, Undefined, Absent, NoSort, FALSE, <<item>>, <<>>)
    /\ IF isDuplicate(dataSource, primaryKey, item)
       THEN /\ ret' = Throw(Err("DuplicateKey", primaryKey, "", ""))
            /\ dataSource' = dataSource
       ELSE /\ ret' = Ok(<<>>, <<item>>, NoMeta)
            /\ dataSource' = Append(dataSource, item)
    /\ UNCHANGED <<primaryKey, dataProcessing>>

\* updateRow behind findIndex: f is the index found
updateAt(name, c, items, f) ==
  /\ pre' = dataSource
  /\ op' = name
  /\ args' = Args(Undefined, Undefined, c, NoSort, FALSE, items, <<>>)
  /\ IF f.thrown
     THEN ret' = Throw(f.err) /\ dataSource' = dataSource
     ELSE IF f.index = 0
     THEN ret' = Throw(Err("ConditionNotFound", "", "", "")) /\ dataSource' = dataSource
     ELSE ret' = Ok(<<>>, <<>>, NoMeta) /\ dataSource' = splice(dataSource, f.index, items)
  /\ UNCHANGED <<primaryKey, dataProcessing>>

\* updateRow(conditions, newItem?): items is <<newItem>>, or <<>> for no newItem
update(name, c, items) == updateAt(name, c, items, findIndex(dataSource, c))

CallUpdateRow(Conds, Items) ==
  \E c \in Conds, item \in Items : update("updateRow", c, <<item>>)

\* updateRow(conditions) with no newItem removes the row
CallUpdateRowNoItem(Conds) ==
  \E c \in Conds : update("updateRow", c, <<>>)

\* deleteRow(conditions) == updateRow(conditions)
CallDeleteRow(Conds) ==
  \E c \in Conds : update("deleteRow", c, <<>>)

RECURSIVE SeqsUpTo(_, _)
\* the sequences over S of length at most n
SeqsUpTo(S, n) ==
  IF n = 0 THEN {<<>>}
  ELSE LET shorter == SeqsUpTo(S, n - 1)
       IN shorter \cup {Append(q, x) : q \in {r \in shorter : Len(r) = n - 1}, x \in S}

\* the state after construction: new TableData(rows, {primaryKey, dataProcessing})
Constructed(Tables, Keys, Processings) ==
  /\ dataSource \in Tables
  /\ primaryKey \in Keys
  /\ dataProcessing \in Processings
  /\ pre = dataSource
  /\ op = "new"
  /\ args = NoArgs
  /\ ret = NoCall

\* the state after construction with the arguments of the one call to come
\* drawn from Inputs (the specifications of one call on a fresh table)
ConstructedWith(Tables, Keys, Processings, Inputs) ==
  /\ dataSource \in Tables
  /\ primaryKey \in Keys
  /\ dataProcessing \in Processings
  /\ pre = dataSource
  /\ op = "new"
  /\ args \in Inputs
  /\ ret = NoCall

(***************************************************************************)
(* Strings and the logic fields in use.                                    *)
(***************************************************************************)
sEmpty == <<>>
sa == <<"a">>
sA == <<"A">>
sb == <<"b">>
sB == <<"B">>
sab == <<"a", "b">>
sAb == <<"A", "b">>
s5 == <<"5">>
s5a == <<"5", "a">>
strue == <<"t", "r", "u", "e">>
sfalse == <<"f", "a", "l", "s", "e">>
Logics == {"AND", "OR", "none"}

(***************************************************************************)
(* SpecTree: filteredList on condition trees nested up to MaxDepth, over   *)
(* three leaves that tell the rows apart.                                  *)
(***************************************************************************)
TreeRow1 == Row(Num(1), Str(sa), Undefined)
TreeRow2 == Row(Num(2), Str(sb), Undefined)
TreeRow3 == Row(Num(3), Str(sab), Undefined)
TreeRows == {TreeRow1, TreeRow2, TreeRow3}
TreeTables == {<<>>, <<TreeRow1, TreeRow2, TreeRow3>>}

LeafNameA == Leaf("name", Str(sA), "none", FALSE, FALSE)
LeafLikeB == Leaf("name", Str(sB), "none", FALSE, TRUE)
LeafId2 == Leaf("id", Num(2), "none", FALSE, FALSE)
LeafRequired == Leaf("name", Undefined, "none", TRUE, FALSE)
TreeLeaves == {LeafNameA, LeafLikeB, LeafId2, LeafRequired}

RECURSIVE TreesUpTo(_)
\* leaves and empty branches; then branches over one subtree, or a leaf and a subtree
TreesUpTo(d) ==
  IF d = 0 THEN TreeLeaves \cup {Branch(lg, <<>>) : lg \in Logics}
  ELSE LET sub == TreesUpTo(d - 1)
       IN sub \cup {Branch(lg, <<t>>) : lg \in Logics, t \in sub}
              \cup {Branch(lg, <<l, t>>) : lg \in Logics, l \in TreeLeaves, t \in sub}

TreeConds ==
  LET sub == TreesUpTo(MaxDepth - 1)
  IN TreesUpTo(MaxDepth)
       \cup {List(<<>>)} \cup {List(<<t>>) : t \in sub}
       \cup {List(<<l, t>>) : l \in TreeLeaves, t \in sub}
       \cup {Branch(lg, <<t, l>>) : lg \in Logics, l \in TreeLeaves, t \in TreesUpTo(0)}
       \cup {Branch(lg, <<l1, l2, l3>>) : lg \in Logics, l1 \in TreeLeaves,
                                           l2 \in TreeLeaves, l3 \in TreeLeaves}

InitTree ==
  ConstructedWith(TreeTables, {"id"}, {"none"},
                  {Args(Undefined, Undefined, c, NoSort, FALSE, <<>>, <<>>) : c \in TreeConds})
TreeFilteredList == op = "new" /\ CallFilteredList({args.conditions})
TreeSelectRow == op = "new" /\ CallSelectRow({args.conditions})
NextTree == TreeFilteredList \/ TreeSelectRow
SpecTree == InitTree /\ [][NextTree]_vars

RECURSIVE RefHolds(_, _)
\* the reference boolean semantics of a condition tree on a row
RefHolds(row, node) ==
  CASE node.kind = "leaf" -> evaluateLeaf(row, node)
    [] node.kind = "branch" /\ node.logic = "OR" ->
         \E i \in DOMAIN node.conditions : RefHolds(row, node.conditions[i])
    [] OTHER -> \A i \in DOMAIN node.conditions : RefHolds(row, node.conditions[i])

RECURSIVE RowsWhere(_, _)
\* the rows of a sequence that satisfy the reference semantics, in order
RowsWhere(rows, node) ==
  IF rows = <<>> THEN <<>>
  ELSE (IF RefHolds(Head(rows), node) THEN <<Head(rows)>> ELSE <<>>)
         \o RowsWhere(Tail(rows), node)

\* C1: filteredList keeps a row iff the tree is true under the reference boolean
\* semantics (AND: all children, OR: some child, no logic: AND, a list: AND)
C1_TreeSemantics ==
  (op = "filteredList" /\ ret.status = "ok") => ret.rows = RowsWhere(pre, args.conditions)

\* OR[A, {conditions: [B, C]}] on the three-row table keeps A or (B and C)
C1_Witness ==
  /\ op = "filteredList"
  /\ args.conditions = Branch("OR", <<LeafNameA, Branch("none", <<LeafLikeB, LeafId2>>)>>)
  /\ pre = <<TreeRow1, TreeRow2, TreeRow3>>
  /\ ret.rows = <<TreeRow1, TreeRow2>>

\* the rows of a sequence whose index satisfies the flags, in order
RECURSIVE RowsFlagged(_, _)
RowsFlagged(rows, flags) ==
  IF rows = <<>> THEN <<>>
  ELSE (IF Head(flags) THEN <<Head(rows)>> ELSE <<>>) \o RowsFlagged(Tail(rows), Tail(flags))

IsEmptyAnd(node) == node.kind = "branch" /\ node.conditions = <<>> /\ node.logic # "OR"
IsEmptyOr(node) == node.kind = "branch" /\ node.conditions = <<>> /\ node.logic = "OR"
PlainLeaves == TreeLeaves \ {LeafRequired}

\* C2: on a non-empty table an AND branch with no children keeps every row, in
\* table order, and an OR branch with no children keeps none; as the child of a
\* branch beside a leaf, the first counts as true and the second as false
C2_EmptyBranch ==
  (op = "filteredList" /\ pre # <<>>) =>
    LET c == args.conditions
        truth(l) == [i \in DOMAIN pre |-> evaluateLeaf(pre[i], l)]
    IN /\ IsEmptyAnd(c) => ret = Ok(pre, <<>>, NoMeta)
       /\ IsEmptyOr(c) => ret = Ok(<<>>, <<>>, NoMeta)
       /\ \A l \in PlainLeaves, e \in {Branch(lg, <<>>) : lg \in Logics} :
            (c.kind = "branch" /\ c.conditions \in {<<l, e>>, <<e, l>>}) =>
              ret.rows =
                (IF c.logic = "OR"
                 THEN (IF IsEmptyAnd(e) THEN pre ELSE RowsFlagged(pre, truth(l)))
                 ELSE (IF IsEmptyAnd(e) THEN RowsFlagged(pre, truth(l)) ELSE <<>>))

\* an empty AND branch on the three-row table returns the three rows
C2_Witness ==
  /\ op = "filteredList"
  /\ args.conditions = Branch("AND", <<LeafNameA, Branch("none", <<>>)>>)
  /\ pre = <<TreeRow1, TreeRow2, TreeRow3>>
  /\ ret.rows = <<TreeRow1>>

(***************************************************************************)
(* SpecLeaf: filteredList with one leaf (alone, in a list, or in a list    *)
(* beside another leaf) on a one-row table; the row's name and tags and    *)
(* the leaf's value range over every kind of value.                        *)
(***************************************************************************)
LeafRowNames == {Str(sa), Str(sAb), Str(s5), Str(strue), Num(5), Bool(TRUE), Null, Undefined}
LeafRowTags == {Undefined, Arr(1, sa)}
LeafRows == {Row(Num(1), nm, tg) : nm \in LeafRowNames, tg \in LeafRowTags}
LeafTables == {<<>>} \cup {<<r>> : r \in LeafRows}

LeafValues ==
  {Undefined, Null, Str(sEmpty), Str(sa), Str(sB), Str(sab), Str(s5), Str(s5a), Str(strue),
   Num(5), Num(0), Bool(TRUE), Bool(FALSE), Arr(1, sa), Arr(2, sa), Arr(3, s5)}
LeafKeys == {"name", "tags", "tags.0", ""}
Types == {"none", "string", "number", "boolean"}
LeafPool ==
  {Leaf(k, v, ty, req, lk) :
     k \in LeafKeys, v \in LeafValues, ty \in Types, req \in BOOLEAN, lk \in BOOLEAN}
OtherLeaves == {Leaf("name", Str(sa), "none", FALSE, TRUE), Leaf("tags.0", Str(sA), "none", FALSE, FALSE)}
LeafConds ==
  LeafPool \cup {List(<<l>>) : l \in LeafPool}
           \cup {List(<<l, o>>) : l \in LeafPool, o \in OtherLeaves}
           \cup {List(<<o, l>>) : l \in LeafPool, o \in OtherLeaves}

InitLeaf ==
  ConstructedWith(LeafTables, {"id"}, {"none"},
                  {Args(Undefined, Undefined, c, NoSort, FALSE, <<>>, <<>>) : c \in LeafConds})
LeafFilteredList == op = "new" /\ CallFilteredList({args.conditions})
NextLeaf == LeafFilteredList
SpecLeaf == InitLeaf /\ [][NextLeaf]_vars

\* the call was filteredList with one leaf, bare or as a one-element list
OneLeaf ==
  /\ op = "filteredList"
  /\ \/ args.conditions.kind = "leaf"
     \/ args.conditions.kind = "list" /\ Len(args.conditions.conditions) = 1
\* that leaf
TheLeaf == IF args.conditions.kind = "leaf" THEN args.conditions ELSE args.conditions.conditions[1]
\* the call was filteredList with a list of two leaves
TwoLeaves ==
  op = "filteredList" /\ args.conditions.kind = "list" /\ Len(args.conditions.conditions) = 2
IsNoOp(l) == l.kind = "leaf" /\ l.key # "" /\ l.value \in {Undefined, Str(sEmpty)}

\* C3: a leaf whose expected value is undefined or the empty string passes every
\* row and never raises, whatever its type and like are, unless required is true;
\* beside another leaf only the other leaf restricts the result
C3_NoOpLeaf ==
  /\ (OneLeaf /\ IsNoOp(TheLeaf) /\ ~TheLeaf.required) => ret = Ok(pre, <<>>, NoMeta)
  /\ TwoLeaves =>
       LET l1 == args.conditions.conditions[1]
           l2 == args.conditions.conditions[2]
       IN /\ (IsNoOp(l1) /\ ~l1.required /\ l2 \in OtherLeaves) =>
               ret = filteredList(pre, List(<<l2>>))
          /\ (IsNoOp(l2) /\ ~l2.required /\ l1 \in OtherLeaves) =>
               ret = filteredList(pre, List(<<l1>>))

\* the one-leaf call ran on a one-row table
OneLeafOneRow == OneLeaf /\ Len(pre) = 1 /\ TheLeaf.key # ""
\* the row's value at the leaf's key
TheRowValue == get(TheLeaf.key, pre[1])

\* C4: for a leaf whose expected value is a non-empty string, the row passes iff
\* the upper-cased string form of its value contains (like) or equals (no like)
\* the upper-cased expected value; a missing or null value is compared as "" and
\* never passes; a number is compared through its digits, also under type number
C4_StringLeaf ==
  (OneLeafOneRow /\ TheLeaf.value.t = "string" /\ TheLeaf.value.s # <<>>) =>
    LET l == TheLeaf
        form == IF TheRowValue \in {Undefined, Null} THEN <<>> ELSE toString(TheRowValue)
        cmp == ToUpperCase(form)
        target == ToUpperCase(l.value.s)
        passes == IF l.like THEN IsSubstring(target, cmp) ELSE cmp = target
    IN /\ (l.type \in {"none", "string"} \/ (l.type = "number" /\ l.value = Str(s5))) =>
            ret.status = "ok"
       /\ ret.status = "ok" => ret.rows = (IF passes THEN pre ELSE <<>>)
       /\ (ret.status = "ok" /\ TheRowValue \in {Undefined, Null}) => ret.rows = <<>>

\* {name: "B", like: true} keeps the row named "Ab"
C4_Witness ==
  /\ OneLeafOneRow
  /\ TheLeaf = Leaf("name", Str(sB), "none", FALSE, TRUE)
  /\ TheRowValue = Str(sAb)
  /\ ret.rows = pre

\* structural equality of two values: the same kind and the same content
DeepEqual(a, b) == a.t = b.t /\ a.n = b.n /\ a.s = b.s

\* C5: for a leaf whose expected value is a number, a boolean or a nested
\* structure, the row passes iff its value is structurally equal to the expected
\* value (two distinct structures with the same content are equal), like or not
C5_DeepEqualLeaf ==
  (OneLeafOneRow /\ TheLeaf.value.t \in {"number", "boolean", "array"} /\ ret.status = "ok") =>
    ret.rows = (IF DeepEqual(TheLeaf.value, TheRowValue) THEN pre ELSE <<>>)

\* a string that is a number as a whole: an optional sign and decimal digits
IsNumericString(cs) == LET u == Unsigned(cs) IN u # <<>> /\ DigitPrefix(u) = u

\* the values the claim lets a declared type accept
RefAccepts(type, v) ==
  CASE type = "number" -> v.t \in {"number", "nan"} \/ (v.t = "string" /\ IsNumericString(v.s))
    [] type = "boolean" -> v.t = "boolean" \/ v \in {Str(strue), Str(sfalse)}
    [] OTHER -> v.t = "string"

\* C7: a leaf with a declared type and a value that is neither undefined nor null
\* is accepted exactly when the value is a number or numeric string (number), a
\* boolean or "true"/"false" (boolean), a string (string); any other value fails
\* with TypeMismatch(key, declared type, typeof value)
C7_TypeValidation ==
  (OneLeafOneRow /\ TheLeaf.type # "none" /\ ~TheLeaf.required
     /\ TheLeaf.value \notin {Undefined, Null}) =>
    IF RefAccepts(TheLeaf.type, TheLeaf.value)
    THEN ret.status = "ok"
    ELSE ret = Throw(Err("TypeMismatch", TheLeaf.key, TheLeaf.type, TypeOf(TheLeaf.value)))

(***************************************************************************)
(* SpecPage: one getRows or selectRows call on a table of up to            *)
(* MaxPageRows rows, with limits and offsets given as numbers up to        *)
(* MaxLimit, as strings, or not at all.                                    *)
(***************************************************************************)
MaxPageRows == 4

s0 == <<"0">>
s1 == <<"1">>
s2 == <<"2">>
PageRow(i) == Row(Num(i), Str(IF i % 2 = 1 THEN sa ELSE sb), Undefined)
PageTable(n) == [i \in 1..n |-> PageRow(i)]
PageTables == {PageTable(n) : n \in 0..MaxPageRows}

PageLimits ==
  {Undefined, Null, Str(s0), Str(s1), Str(s2), Str(sab), Str(sEmpty)}
    \cup {Num(k) : k \in -1..MaxLimit}
PageOffsets ==
  {Undefined, Str(s0), Str(s1), Str(sab), Str(sEmpty)} \cup {Num(k) : k \in -1..MaxLimit}

LeafNameLikeA == Leaf("name", Str(sA), "none", FALSE, TRUE)
LeafIdMismatch == Leaf("id", Str(sab), "number", FALSE, FALSE)
PageConds ==
  {Absent, List(<<>>), List(<<LeafNameLikeA>>), Branch("OR", <<LeafId2, LeafNameLikeA>>),
   List(<<LeafRequired>>), List(<<LeafIdMismatch>>)}

IdDesc == <<"id", "desc">>
NameAsc == <<"name", "asc">>
PageSorts ==
  {NoSort, SortArg("array", <<IdDesc>>), SortArg("array", <<NameAsc, IdDesc>>),
   SortArg("string", <<IdDesc>>)}

PageInputs ==
  {Args(lim, off, c, s, m, <<>>, <<>>) :
     lim \in PageLimits, off \in PageOffsets, c \in {Absent, List(<<LeafNameLikeA>>)},
     s \in {NoSort, SortArg("array", <<IdDesc>>)}, m \in BOOLEAN}
  \cup
  {Args(lim, off, c, s, m, <<>>, <<>>) :
     lim \in {Undefined, Num(0), Num(2)}, off \in {Undefined, Num(1)}, c \in PageConds,
     s \in PageSorts, m \in BOOLEAN}

InitPage ==
  ConstructedWith(PageTables, {"id"}, {"none", "dropFirst", "double", "append"}, PageInputs)
\* getRows takes the sorts as a list (string[]) or not at all
PageGetRows ==
  /\ op = "new"
  /\ args.sort.kind # "string"
  /\ CallGetRows({args.limit}, {args.offset}, {args.conditions}, {args.sort}, {args.meta})
PageSelectRows ==
  /\ op = "new"
  /\ CallSelectRows({args.limit}, {args.offset}, {args.conditions}, {args.sort}, {args.meta})
NextPage == PageGetRows \/ PageSelectRows
SpecPage == InitPage /\ [][NextPage]_vars

PageCall == op \in {"getRows", "selectRows"}
\* the rows of the table that satisfy the conditions of the call (all of them
\* when there are none), and that sequence in the order the sorts ask for
Filtered == RowsWhere(pre, args.conditions)
Ordered == IF args.sort.kind = "absent" THEN Filtered
           ELSE sortedList(Filtered, args.sort.tokens)
\* an integer of at least lo, given as a number or as a string of decimal digits
IsIntArg(v, lo) ==
  \/ v.t = "number" /\ v.n >= lo
  \/ v.t = "string" /\ v.s # <<>> /\ DigitPrefix(v.s) = v.s /\ DigitsValue(v.s) >= lo
IntArg(v) == IF v.t = "number" THEN v.n ELSE DigitsValue(v.s)
\* the elements of seq at the positions [from, to), counted from 0
Window(seq, from, to) == SubSeq(seq, from + 1, IF to > Len(seq) THEN Len(seq) ELSE to)
RaisingConds == {List(<<LeafRequired>>), List(<<LeafIdMismatch>>)}

\* C8: on a non-empty table, with an integer offset >= 0 and an integer limit > 0
\* (numbers or decimal strings), getRows returns the elements at [offset,
\* offset+limit) of the filtered, then sorted rows, and at [offset, end) with no
\* limit; an offset at or beyond the filtered count gives an empty page, no error
C8_Pagination ==
  (PageCall /\ pre # <<>> /\ IsIntArg(args.offset, 0)
     /\ (~args.meta \/ dataProcessing = "none")) =>
    LET off == IntArg(args.offset)
    IN /\ args.conditions \notin RaisingConds => ret.status = "ok"
       /\ (ret.status = "ok" /\ IsIntArg(args.limit, 1)) =>
            ret.rows = Window(Ordered, off, off + IntArg(args.limit))
       /\ (ret.status = "ok" /\ args.limit = Undefined) =>
            ret.rows = Window(Ordered, off, Len(Ordered))
       /\ (ret.status = "ok" /\ off >= Len(Filtered)
             /\ (IsIntArg(args.limit, 1) \/ args.limit = Undefined)) => ret.rows = <<>>

\* limit 2 at offset "1" of the four rows by id descending: the rows 3 and 2
C8_Witness ==
  /\ op = "getRows"
  /\ pre = PageTable(4)
  /\ args.limit = Num(2) /\ args.offset = Str(s1)
  /\ args.sort = SortArg("array", <<IdDesc>>) /\ args.conditions = Absent
  /\ ret.rows = <<PageRow(3), PageRow(2)>>

\* C9: a limit that resolves to 0 (the number 0 or the string "0") gives an empty
\* page for every table, offset, condition tree and sort list; with meta the
\* envelope holds an empty result, totalCount 0 and currentCount 0
C9_ZeroLimit ==
  (PageCall /\ args.limit \in {Num(0), Str(s0)}) =>
    /\ ret.status = "ok"
    /\ ret.rows = <<>>
    /\ ret.meta.present = args.meta
    /\ args.meta => (ret.meta.totalCount = 0 /\ ret.meta.currentCount = 0)

\* limit "0" with meta on three rows: an empty result and totalCount 0
C9_Witness ==
  /\ op = "selectRows"
  /\ pre = PageTable(3)
  /\ args.limit = Str(s0) /\ args.meta /\ args.conditions = Absent
  /\ ret.rows = <<>> /\ ret.meta.present /\ ret.meta.totalCount = 0

\* C10 as claimed: with meta = true, whatever limit, offset and sorts are,
\* totalCount is the number of table rows that satisfy the conditions and
\* currentCount the length of the returned result
C10_MetaCounts ==
  (PageCall /\ args.meta /\ ret.status = "ok") =>
    /\ ret.meta.present
    /\ ret.meta.totalCount = Len(Filtered)
    /\ ret.meta.currentCount = Len(ret.rows)

\* C10 as amended: the same for every call whose limit does not resolve to 0
\* (the envelope's limit is not 0); a limit of 0 reports totalCount 0
C10_MetaCountsAmended ==
  (PageCall /\ args.meta /\ ret.status = "ok") =>
    /\ ret.meta.present
    /\ ret.meta.currentCount = Len(ret.rows)
    /\ ret.meta.limit # Num(0) => ret.meta.totalCount = Len(Filtered)
    /\ ret.meta.limit = Num(0) => ret.meta.totalCount = 0

\* limit 1 on four rows, two of them named "a", with a transform that doubles
\* the page: totalCount 2 and currentCount 2
C10_Witness ==
  /\ op = "getRows"
  /\ pre = PageTable(4) /\ dataProcessing = "double"
  /\ args.meta /\ args.limit = Num(1) /\ args.conditions = List(<<LeafNameLikeA>>)
  /\ ret.meta.totalCount = 2 /\ ret.meta.currentCount = 2 /\ Len(ret.rows) = 2

(***************************************************************************)
(* Spec: a table of up to MaxRows rows under any sequence of calls of the  *)
(* eight operations.                                                       *)
(***************************************************************************)
MainRow1 == Row(Num(1), Str(sa), Undefined)
MainRow2 == Row(Num(2), Str(sa), Undefined)
MainRow3 == Row(Str(s1), Str(sb), Undefined)
MainRow4 == Row(Num(2), Str(sb), Undefined)
MainRow5 == Row(Undefined, Str(sa), Undefined)
MainRows == {MainRow1, MainRow2, MainRow3, MainRow4, MainRow5}
MainTables == SeqsUpTo(MainRows, MaxRows)

LeafId1 == Leaf("id", Num(1), "none", FALSE, FALSE)
LeafId1String == Leaf("id", Str(s1), "none", FALSE, FALSE)
LeafNameB == Leaf("name", Str(sb), "none", FALSE, FALSE)
CondRequiredNested == Branch("OR", <<LeafNameA, Branch("none", <<LeafRequired>>)>>)
MainConds ==
  {List(<<LeafId1>>), List(<<LeafId1String>>), List(<<LeafNameA>>), List(<<>>),
   Branch("OR", <<LeafId2, LeafNameB>>), List(<<LeafRequired>>), CondRequiredNested,
   List(<<LeafIdMismatch>>)}
MainPageConds == {Absent, List(<<LeafNameA>>), List(<<LeafRequired>>), CondRequiredNested}
MainSorts == {SortArg("array", <<IdDesc>>), SortArg("array", <<NameAsc, IdDesc>>)}

Init == Constructed(MainTables, {"id", ""}, {"none"})

FilteredListOp == CallFilteredList(MainConds)
SortedListOp == CallSortedList({dataSource}, MainSorts)
GetRowsOp == CallGetRows({Undefined, Num(0)}, {Undefined}, MainPageConds, {NoSort}, BOOLEAN)
SelectRowsOp == CallSelectRows({Undefined, Num(1)}, {Num(1)}, MainPageConds, {NoSort}, BOOLEAN)
SelectRowOp == CallSelectRow(MainConds)
InsertRowOp == CallInsertRow(MainRows)
UpdateRowOp == CallUpdateRow(MainConds, {MainRow1, MainRow4})
UpdateRowNoItemOp == CallUpdateRowNoItem(MainConds)
DeleteRowOp == CallDeleteRow(MainConds)

Next ==
  \/ FilteredListOp
  \/ SortedListOp
  \/ GetRowsOp
  \/ SelectRowsOp
  \/ SelectRowOp
  \/ InsertRowOp
  \/ UpdateRowOp
  \/ UpdateRowNoItemOp
  \/ DeleteRowOp

Spec == Init /\ [][Next]_vars

RECURSIVE RequiredMissingKeys(_)
\* the keys of the leaves of a tree that are required and carry no value
RequiredMissingKeys(node) ==
  IF node.kind = "leaf"
  THEN (IF node.required /\ node.value \in {Undefined, Null, Str(sEmpty)} THEN {node.key} ELSE {})
  ELSE UNION {RequiredMissingKeys(node.conditions[i]) : i \in DOMAIN node.conditions}

ConditionCall ==
  op \in {"filteredList", "getRows", "selectRows", "selectRow", "updateRow", "deleteRow"}

\* C6: every call of filteredList, getRows, selectRows, selectRow, updateRow or
\* deleteRow whose condition tree holds a required leaf without a value fails with
\* MissingRequiredField naming that leaf's field, for every table (empty or not)
\* and every limit and offset
C6_RequiredRaises ==
  (ConditionCall /\ RequiredMissingKeys(args.conditions) # {}) =>
    /\ ret.status = "throw"
    /\ ret.err.kind = "MissingRequiredField"
    /\ ret.err.key \in RequiredMissingKeys(args.conditions)

(***************************************************************************)
(* SpecSort: one call of sortedList on a fresh table.  The rows handed to  *)
(* the call carry pairwise different ids (so that a row of the result is   *)
(* found again in the input) and names that repeat.                        *)
(***************************************************************************)
MaxSortRows == 3

SortRows == {Row(Num(i), Str(nm), Undefined) : i \in 1..MaxSortRows, nm \in {sa, sb}}
SortInputs ==
  {rs \in SeqsUpTo(SortRows, MaxSortRows) :
     \A i, j \in DOMAIN rs : i # j => rs[i].id # rs[j].id}
SortTokens ==
  {<<"id">>, <<"id", "desc">>, <<"id", "DESC">>, <<"name", "asc">>, <<"name", "desc">>,
   <<"name", "desc", "x">>, <<"tags", "desc">>}
SortLists ==
  {<<>>} \cup {<<t>> : t \in SortTokens}
    \cup {<<<<"name", k>>, <<"id", d>>>> : k \in {"asc", "desc"}, d \in {"asc", "desc", "up"}}
    \cup {<<<<"tags">>, <<"name", "desc">>, <<"id">>>>}

InitSort ==
  ConstructedWith({<<>>}, {""}, {"none"},
                  {Args(Undefined, Undefined, Absent, SortArg("array", ts), FALSE, <<>>, rs) :
                     ts \in SortLists, rs \in SortInputs})
SortSortedList == op = "new" /\ CallSortedList({args.rows}, {args.sort})
NextSort == SortSortedList
SpecSort == InitSort /\ [][NextSort]_vars

\* a token sorts descending iff its direction is exactly "desc"
RefDescending(token) == Len(token) >= 2 /\ token[2] = "desc"
\* the value of a row at the key of a token
RefKey(token, row) == IF token[1] \in DOMAIN row THEN row[token[1]] ELSE Undefined
\* a before b in ascending order: numbers by size, strings by their characters
RefLess(a, b) ==
  IF a.t = "number" /\ b.t = "number" THEN a.n < b.n
  ELSE IF a.t = "string" /\ b.t = "string" THEN StringLess(a.s, b.s)
  ELSE FALSE
\* r1 strictly before r2 under the tokens: the first token on which they differ
\* decides, in its direction
RefBefore(tokens, r1, r2) ==
  \E k \in DOMAIN tokens :
    /\ \A h \in 1..(k - 1) : RefKey(tokens[h], r1) = RefKey(tokens[h], r2)
    /\ IF RefDescending(tokens[k])
       THEN RefLess(RefKey(tokens[k], r2), RefKey(tokens[k], r1))
       ELSE RefLess(RefKey(tokens[k], r1), RefKey(tokens[k], r2))
RefTied(tokens, r1, r2) ==
  \A k \in DOMAIN tokens : RefKey(tokens[k], r1) = RefKey(tokens[k], r2)
\* the position of a row in a sequence of rows with different ids
PositionIn(rows, r) == CHOOSE i \in DOMAIN rows : rows[i] = r

\* C11: sortedList returns a permutation of its input, ordered by the sort tokens
\* as successive keys (a later token only breaks the ties of the earlier ones),
\* descending iff the direction is exactly "desc", and rows tied on every key
\* keep their input order
C11_SortedList ==
  op = "sortedList" =>
    /\ ret.status = "ok"
    /\ Len(ret.rows) = Len(args.rows)
    /\ {ret.rows[i] : i \in DOMAIN ret.rows} = {args.rows[i] : i \in DOMAIN args.rows}
    /\ \A i, j \in DOMAIN ret.rows :
         i < j =>
           /\ ~RefBefore(args.sort.tokens, ret.rows[j], ret.rows[i])
           /\ RefTied(args.sort.tokens, ret.rows[i], ret.rows[j]) =>
                PositionIn(args.rows, ret.rows[i]) < PositionIn(args.rows, ret.rows[j])

\* a call with two keys that moves rows: ties on the name are broken by the id,
\* descending
C11_Witness ==
  /\ op = "sortedList"
  /\ args.sort.tokens = <<<<"name", "asc">>, <<"id", "desc">>>>
  /\ args.rows = <<Row(Num(1), Str(sb), Undefined), Row(Num(2), Str(sa), Undefined),
                   Row(Num(3), Str(sa), Undefined)>>
  /\ ret.rows = <<Row(Num(3), Str(sa), Undefined), Row(Num(2), Str(sa), Undefined),
                  Row(Num(1), Str(sb), Undefined)>>

(***************************************************************************)
(* The mutating calls under Spec.                                          *)
(***************************************************************************)
\* the item of the last insertRow / updateRow call
TheItem == args.item[1]
\* some row of the table before the call carries the item's value at the primary key
RefDuplicate ==
  primaryKey # "" /\ \E i \in DOMAIN pre : pre[i][primaryKey] = TheItem[primaryKey]

\* C12: insertRow fails with DuplicateKey iff a primary key is configured and some
\* row carries the item's value there, and then the table is unchanged; otherwise
\* the item is appended as the last row and returned
C12_InsertRow ==
  op = "insertRow" =>
    IF RefDuplicate
    THEN ret.status = "throw" /\ ret.err.kind = "DuplicateKey" /\ dataSource = pre
    ELSE /\ ret.status = "ok"
         /\ ret.found = <<TheItem>>
         /\ Len(dataSource) = Len(pre) + 1
         /\ dataSource[Len(dataSource)] = TheItem
         /\ \A i \in DOMAIN pre : dataSource[i] = pre[i]

\* an insert accepted beside a row whose key is the string "1": the number 1 is
\* a different key
C12_Witness ==
  /\ op = "insertRow" /\ primaryKey = "id"
  /\ pre = <<MainRow3>> /\ TheItem = MainRow1
  /\ ret.status = "ok" /\ dataSource = <<MainRow3, MainRow1>>

RECURSIVE RefValid(_)
\* valid conditions: no leaf of the tree fails validation
RefValid(node) ==
  IF node.kind = "leaf" THEN validateConditionItem(node) = NoErr
  ELSE \A i \in DOMAIN node.conditions : RefValid(node.conditions[i])

UpdateCall == op \in {"updateRow", "deleteRow"}
\* the rows of the table before the call that satisfy its conditions
Matching == RowsWhere(pre, args.conditions)
\* the smallest index of a row of the table before the call that satisfies them
FirstMatch ==
  CHOOSE k \in DOMAIN pre :
    /\ RefHolds(pre[k], args.conditions)
    /\ \A h \in 1..(k - 1) : ~RefHolds(pre[h], args.conditions)

\* C13: updateRow and deleteRow with valid conditions that no row satisfies fail
\* with ConditionNotFound, on the empty table too, and a failed insertRow,
\* updateRow or deleteRow leaves the table as it was
C13_FailedMutation ==
  /\ (UpdateCall /\ RefValid(args.conditions) /\ Matching = <<>>) =>
       (ret.status = "throw" /\ ret.err.kind = "ConditionNotFound")
  /\ (op \in {"insertRow", "updateRow", "deleteRow"} /\ ret.status = "throw") =>
       dataSource = pre

\* an update with a replacement row whose conditions no row of a two-row table
\* satisfies
C13_Witness ==
  /\ op = "updateRow" /\ args.item # <<>>
  /\ pre = <<MainRow2, MainRow3>> /\ args.conditions = List(<<LeafId1>>)
  /\ ret.err.kind = "ConditionNotFound" /\ dataSource = pre

\* C14: a successful updateRow with a new item replaces the first row that
\* satisfies the conditions by the item, at its position; a successful deleteRow
\* or updateRow without item removes that row; every other row stays, in order;
\* after a deleteRow where exactly one row satisfied the conditions selectRow
\* with them returns no row
C14_UpdateFrame ==
  (UpdateCall /\ ret.status = "ok") =>
    /\ Matching # <<>>
    /\ Len(dataSource) = Len(pre) - 1 + Len(args.item)
    /\ \A i \in 1..(FirstMatch - 1) : dataSource[i] = pre[i]
    /\ args.item # <<>> => dataSource[FirstMatch] = TheItem
    /\ \A i \in (FirstMatch + 1)..Len(pre) :
         dataSource[i - 1 + Len(args.item)] = pre[i]
    /\ (op = "deleteRow" /\ Len(Matching) = 1) =>
         selectRow(dataSource, args.conditions) = Ok(<<>>, <<>>, NoMeta)

\* two rows satisfy the conditions and the first is replaced
C14_Witness ==
  /\ op = "updateRow" /\ args.conditions = List(<<LeafNameA>>)
  /\ pre = <<MainRow1, MainRow2>> /\ args.item = <<MainRow4>>
  /\ ret.status = "ok" /\ dataSource = <<MainRow4, MainRow2>>

\* C15: selectRow with valid conditions returns the first row in table order that
\* satisfies them, the row filteredList returns first, and returns no row, without
\* raising, when none does
C15_SelectRow ==
  (op = "selectRow" /\ RefValid(args.conditions)) =>
    /\ ret.status = "ok"
    /\ ret.found = IF Matching = <<>> THEN <<>> ELSE <<pre[FirstMatch]>>
    /\ ret.found = IF filteredList(pre, args.conditions).rows = <<>> THEN <<>>
                   ELSE <<Head(filteredList(pre, args.conditions).rows)>>

\* the second and the third row satisfy the tree and the second is returned
C15_Witness ==
  /\ op = "selectRow" /\ pre = <<TreeRow1, TreeRow2, TreeRow3>>
  /\ Len(Matching) = 2 /\ ret.found = <<TreeRow2>>

(***************************************************************************)
(* Limit, offset and dataProcessing under SpecPage.                        *)
(***************************************************************************)
\* the page of the call of the last step with another offset
SamePageAt(off) ==
  IF op = "selectRows"
  THEN selectRows(pre, dataProcessing, args.limit, off, args.conditions, args.sort, args.meta)
  ELSE getRows(pre, dataProcessing, args.limit, off, args.conditions, args.sort, args.meta)

\* C16: a limit that is absent or does not parse as an integer means no limit:
\* getRows returns every filtered, sorted row from the offset on
C16_NoLimit ==
  (PageCall /\ parseInt(args.limit) = NaN /\ IsIntArg(args.offset, 0)
     /\ (~args.meta \/ dataProcessing = "none") /\ ret.status = "ok") =>
    ret.rows = Window(Ordered, IntArg(args.offset), Len(Ordered))

\* C17: an offset that is absent, empty or does not parse as an integer resolves
\* to 0: the call returns the page of the same call with offset 0, and the meta
\* envelope reports offset 0
C17_OffsetDefault ==
  (PageCall /\ parseInt(args.offset) = NaN /\ ret.status = "ok") =>
    /\ ret.rows = SamePageAt(Num(0)).rows
    /\ args.meta => ret.meta.offset = Num(0)

\* the call is cut short: the table is empty or the limit resolves to 0
ShortCircuited == pre = <<>> \/ args.limit \in {Num(0), Str(s0)}
\* the page of a call with an integer offset >= 0 and an integer limit > 0 or none
PlainWindow ==
  /\ IsIntArg(args.offset, 0)
  /\ IsIntArg(args.limit, 1) \/ args.limit = Undefined
ThePage ==
  Window(Ordered, IntArg(args.offset),
         IF args.limit = Undefined THEN Len(Ordered)
         ELSE IntArg(args.offset) + IntArg(args.limit))

\* C18: the configured transform is applied once, to the page, iff meta is asked
\* for and the call is not cut short; without meta the page is returned as it is;
\* totalCount is the count of the filtered rows whatever the transform is
C18_PostProcess ==
  (PageCall /\ ret.status = "ok") =>
    /\ (ShortCircuited /\ args.meta) => (ret.rows = <<>> /\ ret.meta.totalCount = 0)
    /\ (~ShortCircuited /\ PlainWindow /\ ~args.meta) => ret.rows = ThePage
    /\ (~ShortCircuited /\ PlainWindow /\ args.meta) =>
         /\ ret.rows = applyProcessing(dataProcessing, ThePage)
         /\ ret.meta.totalCount = Len(Filtered)

\* with a transform that appends a row: the page of one row comes back with two
\* rows under meta
C18_Witness ==
  /\ op = "getRows" /\ dataProcessing = "append" /\ args.meta
  /\ pre = PageTable(3) /\ args.limit = Num(1) /\ args.offset = Num(1)
  /\ args.conditions = Absent /\ args.sort = NoSort
  /\ ret.rows = <<PageRow(2), Row(Num(0), Str(sEmpty), Undefined)>>
  /\ ret.meta.totalCount = 3 /\ ret.meta.currentCount = 2

(***************************************************************************)
(* The table under reads and under the primary key, under Spec.            *)
(***************************************************************************)
ReadOps == {"filteredList", "sortedList", "getRows", "selectRows", "selectRow"}

\* C19: filteredList, sortedList, getRows, selectRows and selectRow never change
\* the table, whether they return or throw: the table behind the call holds the
\* same rows in the same order
C19_ReadsKeepTable ==
  [][op' \in ReadOps => dataSource' = dataSource]_vars

\* sortedList on the rows of the table returns them in another order and the
\* table keeps its own
C19_Witness ==
  /\ op = "sortedList" /\ pre = <<MainRow1, MainRow2>>
  /\ ret.rows = <<MainRow2, MainRow1>> /\ dataSource = <<MainRow1, MainRow2>>

\* the rows of a table carry pairwise different values at the primary key
UniqueKeys(ds) ==
  primaryKey # "" =>
    \A i, j \in DOMAIN ds : i # j => ds[i][primaryKey] # ds[j][primaryKey]

\* C20: a table whose rows carry pairwise different primary-key values stays so
\* under insertRow and deleteRow, succeeding or failing; only an updateRow with a
\* replacement row brings in a duplicate
C20_UniqueKeys ==
  [][(UniqueKeys(dataSource) /\ ~UniqueKeys(dataSource')) =>
       (op' = "updateRow" /\ args'.item # <<>>)]_vars

\* an insert that is let in beside a row with another key
C20_Witness ==
  /\ op = "insertRow" /\ primaryKey = "id"
  /\ pre = <<MainRow1>> /\ ret.status = "ok"
  /\ dataSource = <<MainRow1, MainRow2>> /\ UniqueKeys(dataSource)

(***************************************************************************)
(* SpecKey: a table with the primary key "id"; rows are inserted, and      *)
(* behind every insert that succeeded the inserted item is selected or     *)
(* deleted by its key, [{id: item.id}].  The keys are numbers and          *)
(* non-empty strings.                                                      *)
(***************************************************************************)
KeyValues == {Num(1), Num(2), Str(s1), Str(sa), Str(sA)}
KeyRows == {Row(v, Str(nm), Undefined) : v \in KeyValues, nm \in {sa, sb}}
KeyTables ==
  {t \in SeqsUpTo(KeyRows, MaxRows - 1) :
     \A i, j \in DOMAIN t : i # j => t[i].id # t[j].id}
\* the conditions [{[primaryKey]: item[primaryKey]}]
KeyCondition(item) == List(<<Leaf(primaryKey, item[primaryKey], "none", FALSE, FALSE)>>)
Inserted == op = "insertRow" /\ ret.status = "ok"

InitKey == Constructed(KeyTables, {"id"}, {"none"})
KeyInsertRow == CallInsertRow(KeyRows)
KeySelectRow == Inserted /\ CallSelectRow({KeyCondition(args.item[1])})
KeyDeleteRow == Inserted /\ CallDeleteRow({KeyCondition(args.item[1])})
NextKey == KeyInsertRow \/ KeySelectRow \/ KeyDeleteRow
SpecKey == InitKey /\ [][NextKey]_vars

\* C21: behind an insertRow that succeeded with a number or a non-empty string at
\* the primary key, selectRow by that key returns the inserted item (the last row
\* of the table) and deleteRow by that key removes it
C21_KeyAgreement ==
  /\ op = "selectRow" => (ret.status = "ok" /\ ret.found = <<pre[Len(pre)]>>)
  /\ op = "deleteRow" =>
       (ret.status = "ok" /\ dataSource = SubSeq(pre, 1, Len(pre) - 1))
====
